---- MODULE Spec2Model ----
(***************************************************************************)
(* Deterministic event and jet seeds of columnflow/production/cms/seeds.py *)
(*                                                                         *)
(* The three producers deterministic_event_seeds, deterministic_jet_seeds  *)
(* and deterministic_seeds are modelled as actions on a chunk of events.   *)
(* Every uint64 / int64 value is kept at its full width of 64 bits: a word *)
(* is a sequence of eight bytes, least significant first, and the          *)
(* arithmetic below wraps modulo 2^64 exactly as numpy's does.             *)
(***************************************************************************)
EXTENDS Integers, Sequences, FiniteSets, TLC

RECURSIVE Rows(_, _, _)
\* the sequence <<F(k), ..., F(n)>>: one value per event, object or field
Rows(F(_), k, n) == IF k > n THEN <<>> ELSE <<F(k)>> \o Rows(F, k + 1, n)

(***************************************************************************)
(* 64-bit words                                                            *)
(***************************************************************************)

Byte == 2 ^ 8

\* a word has eight bytes
WordBytes == 8

\* a is an np.uint64 (or the bits of an np.int64)
IsWord(a) == Len(a) = WordBytes

\* the word of a natural number below 2^31
U64(n) ==
    <<n % Byte, (n \div Byte) % Byte, (n \div (Byte * Byte)) % Byte,
      n \div (Byte * Byte * Byte), 0, 0, 0, 0>>

Zero64 == U64(0)

\* a + b in 64 bits
Add64(a, b) ==
    CASE IsWord(a) /\ IsWord(b) ->
    LET s1 == a[1] + b[1]
        s2 == a[2] + b[2] + s1 \div Byte
        s3 == a[3] + b[3] + s2 \div Byte
        s4 == a[4] + b[4] + s3 \div Byte
        s5 == a[5] + b[5] + s4 \div Byte
        s6 == a[6] + b[6] + s5 \div Byte
        s7 == a[7] + b[7] + s6 \div Byte
        s8 == a[8] + b[8] + s7 \div Byte
    IN  <<s1 % Byte, s2 % Byte, s3 % Byte, s4 % Byte,
          s5 % Byte, s6 % Byte, s7 % Byte, s8 % Byte>>

\* a * b in 64 bits: the byte columns of the long multiplication
Mul64(a, b) ==
    CASE IsWord(a) /\ IsWord(b) ->
    LET s1 == a[1] * b[1]
        s2 == a[1] * b[2] + a[2] * b[1] + s1 \div Byte
        s3 == a[1] * b[3] + a[2] * b[2] + a[3] * b[1] + s2 \div Byte
        s4 == a[1] * b[4] + a[2] * b[3] + a[3] * b[2] + a[4] * b[1]
              + s3 \div Byte
        s5 == a[1] * b[5] + a[2] * b[4] + a[3] * b[3] + a[4] * b[2]
              + a[5] * b[1] + s4 \div Byte
        s6 == a[1] * b[6] + a[2] * b[5] + a[3] * b[4] + a[4] * b[3]
              + a[5] * b[2] + a[6] * b[1] + s5 \div Byte
        s7 == a[1] * b[7] + a[2] * b[6] + a[3] * b[5] + a[4] * b[4]
              + a[5] * b[3] + a[6] * b[2] + a[7] * b[1] + s6 \div Byte
        s8 == a[1] * b[8] + a[2] * b[7] + a[3] * b[6] + a[4] * b[5]
              + a[5] * b[4] + a[6] * b[3] + a[7] * b[2] + a[8] * b[1]
              + s7 \div Byte
    IN  <<s1 % Byte, s2 % Byte, s3 % Byte, s4 % Byte,
          s5 % Byte, s6 % Byte, s7 % Byte, s8 % Byte>>

\* the quotient and the remainder of the unsigned a by a small d
DivMod64(a, d) ==
    CASE IsWord(a) ->
    LET c8 == a[8]
        c7 == (c8 % d) * Byte + a[7]
        c6 == (c7 % d) * Byte + a[6]
        c5 == (c6 % d) * Byte + a[5]
        c4 == (c5 % d) * Byte + a[4]
        c3 == (c4 % d) * Byte + a[3]
        c2 == (c3 % d) * Byte + a[2]
        c1 == (c2 % d) * Byte + a[1]
        hi == <<c8 \div d, c7 \div d, c6 \div d, c5 \div d,
                c4 \div d, c3 \div d, c2 \div d, c1 \div d>>
    IN  CASE IsWord(hi) ->
             [q |-> <<hi[8], hi[7], hi[6], hi[5], hi[4], hi[3], hi[2], hi[1]>>,
              r |-> c1 % d]

\* the unsigned value of a modulo a small m
UMod64(a, m) == DivMod64(a, m).r

\* the sign bit of a word read as np.int64
IsNeg64(a) == a[8] >= Byte \div 2

\* 2^64 modulo a small m
WordMod(m) ==
    (UMod64(<<Byte - 1, Byte - 1, Byte - 1, Byte - 1,
              Byte - 1, Byte - 1, Byte - 1, Byte - 1>>, m) + 1) % m

\* np.remainder on np.int64 with a positive divisor: the word is read as a
\* signed (two's complement) value and the result has the divisor's sign
SMod64(a, m) ==
    CASE IsWord(a) ->
    IF IsNeg64(a) THEN (UMod64(a, m) - WordMod(m)) % m ELSE UMod64(a, m)

\* -a in 64 bits
Neg64(a) ==
    Add64(<<Byte - 1 - a[1], Byte - 1 - a[2], Byte - 1 - a[3], Byte - 1 - a[4],
            Byte - 1 - a[5], Byte - 1 - a[6], Byte - 1 - a[7], Byte - 1 - a[8]>>,
          U64(1))

\* the word of an integer of magnitude below 2^31: ak.values_astype(x,
\* np.uint64) keeps the two's complement bits of a negative x
I64(n) == IF n >= 0 THEN U64(n) ELSE Neg64(U64(-n))

\* 10^6: str(val) is worked out in groups of six decimal digits
Million == 10 ^ 6

\* the 20 decimal digits of g4 * 10^18 + g3 * 10^12 + g2 * 10^6 + g1, most
\* significant first
Digits20(g4, g3, g2, g1) ==
    [i \in 1..20 |->
        ((IF i <= 2 THEN g4 ELSE IF i <= 8 THEN g3 ELSE IF i <= 14 THEN g2 ELSE g1)
            \div (10 ^ (IF i <= 2 THEN 2 - i ELSE (20 - i) % 6))) % 10]

\* the position of the first digit that is not a leading zero
FirstDigit(ds) ==
    IF \E i \in 1..19 : ds[i] # 0
    THEN CHOOSE i \in 1..19 : ds[i] # 0 /\ \A j \in 1..(i - 1) : ds[j] = 0
    ELSE 20

\* the digits without their leading zeros
Strip(ds, first) == [i \in 1..(21 - first) |-> ds[first + i - 1]]

\* a 64-bit value has at most 20 decimal digits
StrDigits(ds) == CASE Len(ds) = 20 -> Strip(ds, FirstDigit(ds))

StrGroups3(g1, g2, d3) == StrDigits(Digits20(d3.q[1], d3.r, g2, g1))

StrGroups2(g1, d2) == StrGroups3(g1, d2.r, DivMod64(d2.q, Million))

StrGroups1(d1) == StrGroups2(d1.r, DivMod64(d1.q, Million))

\* str(val) of an np.uint64: its decimal digits, most significant first
Str64(val) == StrGroups1(DivMod64(val, Million))

(***************************************************************************)
(* Prime table                                                             *)
(***************************************************************************)

\* columnflow.util.primes, stored by the setup functions as
\* self.primes = np.array(primes, dtype=np.uint64); 1-based here, 0-based there
primes ==
    << 2, 3, 5, 7, 11, 13, 17, 19, 23, 29,
       31, 37, 41, 43, 47, 53, 59, 61, 67, 71,
       73, 79, 83, 89, 97, 101, 103, 107, 109, 113,
       127, 131, 137, 139, 149, 151, 157, 163, 167, 173,
       179, 181, 191, 193, 197, 199, 211, 223, 227, 229,
       233, 239, 241, 251, 257, 263, 269, 271, 277, 281,
       283, 293, 307, 311, 313, 317, 331, 337, 347, 349,
       353, 359, 367, 373, 379, 383, 389, 397, 401, 409,
       419, 421, 431, 433, 439, 443, 449, 457, 461, 463,
       467, 479, 487, 491, 499, 503, 509, 521, 523, 541 >>

\* len(self.primes)
TableLen == Len(primes)

\* self.primes[i] for a 0-based index i below len(self.primes)
prime_at(i) == U64(primes[i + 1])

(***************************************************************************)
(* Digest mixer                                                            *)
(***************************************************************************)

\* the number of hex digits of a sha256 hexdigest
HexLen == 64

Mix == 1000003

\* the k-th character of the text, 0 past its end
Digit(text, k) == IF k <= Len(text) THEN text[k] + 1 ELSE 0

\* the text of an np.uint64 has at most 20 characters; each enters with a
\* weight of its own
Absorb(text) ==
    ((((Digit(text, 1) * 340563 + Digit(text, 2) * 994908 + Digit(text, 3) * 159176)
       + (Digit(text, 4) * 415002 + Digit(text, 5) * 683554 + Digit(text, 6) * 51631))
      + ((Digit(text, 7) * 76954 + Digit(text, 8) * 862168 + Digit(text, 9) * 562913)
         + (Digit(text, 10) * 99702 + Digit(text, 11) * 384452 + Digit(text, 12) * 612097)))
     + (((Digit(text, 13) * 61816 + Digit(text, 14) * 954893 + Digit(text, 15) * 533084)
         + (Digit(text, 16) * 226127 + Digit(text, 17) * 40317 + Digit(text, 18) * 91122))
        + (Digit(text, 19) * 455710 + Digit(text, 20) * 439485))) % Mix

\* the k-th hex digit drawn from the absorbed state
Squeeze(acc, k) ==
    LET x == (acc * (2 * k + 1) + 31 * k) % 46337
    IN  ((x * x + x) % 46337) % 16

\* hashlib.sha256(bytes(text, "utf-8")).hexdigest(): 64 hex digits that are a
\* fixed function of the text.  The library's compression function is stood
\* in for by a small mixing function; nothing below looks inside it.
sha256_hexdigest(text) ==
    CASE Len(text) >= 1 ->
    LET acc == Absorb(text)
    IN  [k \in 1..HexLen |-> Squeeze(acc, k)]

\* hexdigest()[:-(n_hex + 1):-1]: the last n_hex digits, in reverse order
RevTail(hex, n_hex) ==
    CASE Len(hex) = HexLen -> [k \in 1..n_hex |-> hex[Len(hex) + 1 - k]]

\* the hex digit k places from the end of s (0: the last), 0 before its start
HexAt(s, k) == IF k < Len(s) THEN s[Len(s) - k] ELSE 0

\* int(s, base=16) stored as np.uint64: s[1] is the most significant digit
ParseHex(s) ==
    <<16 * HexAt(s, 1) + HexAt(s, 0),   16 * HexAt(s, 3) + HexAt(s, 2),
      16 * HexAt(s, 5) + HexAt(s, 4),   16 * HexAt(s, 7) + HexAt(s, 6),
      16 * HexAt(s, 9) + HexAt(s, 8),   16 * HexAt(s, 11) + HexAt(s, 10),
      16 * HexAt(s, 13) + HexAt(s, 12), 16 * HexAt(s, 15) + HexAt(s, 14)>>

\* create_seed(val, n_hex)
create_seed(val, n_hex) ==
    CASE IsWord(val) ->
        ParseHex(RevTail(sha256_hexdigest(Str64(val)), n_hex))

(***************************************************************************)
(* Arrays                                                                  *)
(*                                                                         *)
(* An ak.Array of events is [len, fields]: fields maps a top-level field   *)
(* name to a column (one entry per event) or, for a collection, to a       *)
(* record of jagged columns (one sequence of objects per event).           *)
(***************************************************************************)

\* Route(field)._fields: the path of a dotted column name
Route(field) ==
    CASE field = "Pileup.nPU"            -> <<"Pileup", "nPU">>
      [] field = "Electron.jetIdx"       -> <<"Electron", "jetIdx">>
      [] field = "Electron.seediPhiOriY" -> <<"Electron", "seediPhiOriY">>
      [] field = "Tau.jetIdx"            -> <<"Tau", "jetIdx">>
      [] field = "Tau.decayMode"         -> <<"Tau", "decayMode">>
      [] field = "Muon.jetIdx"           -> <<"Muon", "jetIdx">>
      [] field = "Muon.nStations"        -> <<"Muon", "nStations">>
      [] field = "Jet.nConstituents"     -> <<"Jet", "nConstituents">>
      [] field = "Jet.nElectrons"        -> <<"Jet", "nElectrons">>
      [] field = "Jet.nMuons"            -> <<"Jet", "nMuons">>
      [] field = "Jet.deterministic_seed" -> <<"Jet", "deterministic_seed">>
      [] OTHER                           -> <<field>>

RECURSIVE ApplyPath(_, _, _)
\* walks the path; found is FALSE where Route.apply raises FieldNotFoundError
ApplyPath(rec, path, k) ==
    IF k > Len(path) THEN [found |-> TRUE, value |-> rec]
    ELSE IF path[k] \in DOMAIN rec THEN ApplyPath(rec[path[k]], path, k + 1)
    ELSE [found |-> FALSE]

\* Route(field).apply(ak_array)
RouteApply(ak_array, field) == ApplyPath(ak_array.fields, Route(field), 1)

\* apply_field(ak_array, field): the column, or None (found = FALSE) after the
\* FieldNotFoundError was caught; the warning is issued by the caller's step
apply_field(ak_array, field) == RouteApply(ak_array, field)

\* events.<name>: attribute access raises AttributeError for a missing field
HasField(ak_array, name) == name \in DOMAIN ak_array.fields

SetField(rec, path, k, column) == (path[k] :> column) @@ rec

\* set_ak_column(ak_array, route, column): a new array with the column set
set_ak_column(ak_array, route, column) ==
    LET path == Route(route)
    IN  [ak_array EXCEPT !.fields =
            IF Len(path) = 1 THEN SetField(@, path, 1, column)
            ELSE SetField(@, path, 1,
                          SetField(IF path[1] \in DOMAIN @ THEN @[path[1]]
                                   ELSE <<>>, path, 2, column))]

\* ak.num(arr, axis=1) of a collection: its number of objects in each event
num(arr) ==
    LET f == CHOOSE g \in DOMAIN arr : TRUE
    IN  Rows(LAMBDA r : Len(arr[f][r]), 1, Len(arr[f]))

\* a variant of local_index that numbers the objects through the whole chunk
\* (C1_ChunkInvariance depends on the index being local to the event)
chunk_index(values) ==
    Rows(LAMBDA r :
            Rows(LAMBDA j : j - 1 + (r - 1), 1, Len(values[r])),
         1, Len(values))

\* ak.local_index(values): each object's 0-based position in its own event
local_index(values) ==
    Rows(LAMBDA r : Rows(LAMBDA j : j - 1, 1, Len(values[r])), 1, Len(values))

(***************************************************************************)
(* deterministic_event_seeds                                               *)
(***************************************************************************)

value_offset == 3

prime_offset == 15

\* the default of create_seed's n_hex
n_hex_default == 16

\* the n_hex of the first create_seed call
n_hex_bootstrap == 14

RECURSIVE SumWords(_, _)
\* ws[k] + ws[k+1] + ... in 64 bits
SumWords(ws, k) ==
    IF k > Len(ws) THEN Zero64 ELSE Add64(ws[k], SumWords(ws, k + 1))

\* the three required columns, in the order the code reads them
required_fields == <<"event", "run", "luminosityBlock">>

\* a variant of bootstrap_seed that leaves n_hex at its default (C4_Bare
\* depends on the 14 digits of the first digest)
bootstrap_default_hex(events) ==
    Rows(LAMBDA r :
            create_seed(
                Add64(Add64(Mul64(prime_at(7), I64(events.fields["event"][r])),
                            Mul64(prime_at(5), I64(events.fields["run"][r]))),
                      Mul64(prime_at(3), I64(events.fields["luminosityBlock"][r]))),
                n_hex_default),
         1, events.len)

\* create_seed(primes[7] * event + primes[5] * run + primes[3] * lumi, n_hex=14)
bootstrap_seed(events) ==
    Rows(LAMBDA r :
            create_seed(
                Add64(Add64(Mul64(prime_at(7), I64(events.fields["event"][r])),
                            Mul64(prime_at(5), I64(events.fields["run"][r]))),
                      Mul64(prime_at(3), I64(events.fields["luminosityBlock"][r]))),
                n_hex_bootstrap),
         1, events.len)

\* a variant of collections that counts GenJet and GenPart for every dataset
\* (C9_GlobalPass depends on the is_mc condition)
collections_all(is_mc) ==
    <<"Jet", "FatJet", "SubJet", "Photon", "Muon", "Electron", "Tau", "SV",
      "GenJet", "GenPart">>

\* the collections whose object counts enter the seed
collections(is_mc) ==
    <<"Jet", "FatJet", "SubJet", "Photon", "Muon", "Electron", "Tau", "SV">>
        \o (IF is_mc THEN <<"GenJet", "GenPart">> ELSE <<>>)

\* f"n{col}"
count_field(col) ==
    CASE col = "Jet"      -> "nJet"
      [] col = "FatJet"   -> "nFatJet"
      [] col = "SubJet"   -> "nSubJet"
      [] col = "Photon"   -> "nPhoton"
      [] col = "Muon"     -> "nMuon"
      [] col = "Electron" -> "nElectron"
      [] col = "Tau"      -> "nTau"
      [] col = "SV"       -> "nSV"
      [] col = "GenJet"   -> "nGenJet"
      [] col = "GenPart"  -> "nGenPart"

RECURSIVE gather_counts(_, _, _, _)
\* the loop over the collections: global_fields and events after it
gather_counts(cols, k, global_fields, events) ==
    IF k > Len(cols) THEN [global_fields |-> global_fields, events |-> events]
    ELSE LET arr == apply_field(events, cols[k])
         IN  IF ~arr.found
             THEN gather_counts(cols, k + 1, global_fields, events)
             ELSE gather_counts(cols, k + 1,
                      Append(global_fields, count_field(cols[k])),
                      set_ak_column(events, count_field(cols[k]), num(arr.value)))

\* a variant of flat_fields that also picks up the count columns an earlier
\* run has stored (C10_Driver depends on a second run not reading them)
flat_fields_rerun(events) ==
    (IF apply_field(events, "Pileup.nPU").found THEN <<"Pileup.nPU">> ELSE <<>>)
        \o SelectSeq(<<"nJet", "nFatJet", "nSubJet", "nPhoton", "nMuon",
                       "nElectron", "nTau", "nSV", "nGenJet", "nGenPart">>,
                     LAMBDA f : HasField(events, f))

\* global_fields before the loop over the collections
flat_fields(events) ==
    IF apply_field(events, "Pileup.nPU").found THEN <<"Pileup.nPU">> ELSE <<>>

\* primes * values of one global field at enumeration position i
global_term(column, i) ==
    Rows(LAMBDA r :
            LET values == column[r] + i
            IN  Mul64(prime_at((values + prime_offset) % TableLen), I64(values)),
         1, Len(column))

\* for i, f in enumerate(global_fields, value_offset): what each field adds
global_terms(events, global_fields) ==
    Rows(LAMBDA k : global_term(RouteApply(events, global_fields[k]).value,
                                value_offset + k - 1),
         1, Len(global_fields))

object_fields ==
    <<"Electron.jetIdx", "Electron.seediPhiOriY", "Tau.jetIdx", "Tau.decayMode",
      "Muon.jetIdx", "Muon.nStations", "Jet.nConstituents", "Jet.nElectrons",
      "Jet.nMuons">>

\* hashed of one event: values are the field's int64 values shifted by i, loc
\* is local_index + 1
hashed_row(values, loc) ==
    CASE Len(values) = Len(loc) ->
    Add64(Add64(U64(Len(values)),
                SumWords(Rows(LAMBDA j : Mul64(values[j], U64(loc[j])),
                              1, Len(values)), 1)),
          SumWords(Rows(LAMBDA j : Mul64(Mul64(values[j], values[j]), U64(loc[j])),
                        1, Len(values)), 1))

\* the prime index of the object pass: hashed is an int64 array there
hashed_index(hashed) == SMod64(Add64(hashed, U64(prime_offset)), TableLen)

\* hashed of every event for one object field at enumeration position i
object_hashed(column, i) ==
    LET li == local_index(column)
    IN  CASE Len(li) = Len(column) ->
        Rows(LAMBDA r :
                hashed_row(Rows(LAMBDA j : Add64(I64(column[r][j]), U64(i)),
                                1, Len(column[r])),
                           Rows(LAMBDA j : li[r][j] + 1, 1, Len(column[r]))),
             1, Len(column))

\* primes * hashed of one object field at enumeration position i
object_term(column, i) ==
    LET hashed == object_hashed(column, i)
    IN  CASE Len(hashed) = Len(column) ->
        Rows(LAMBDA r : Mul64(prime_at(hashed_index(hashed[r])), hashed[r]),
             1, Len(column))

\* the position i of object_fields[k]
object_position(events, k) == value_offset + k - 1

\* for i, f in enumerate(object_fields, value_offset): what each field adds,
\* nothing for a field that is not there
object_terms(events) ==
    Rows(LAMBDA k :
            LET values == apply_field(events, object_fields[k])
            IN  IF ~values.found THEN Rows(LAMBDA r : Zero64, 1, events.len)
                ELSE object_term(values.value, object_position(events, k)),
         1, Len(object_fields))

\* seed + terms[1] + terms[2] + ... for every event; the arrays that are added
\* have one entry per event
add_terms(seed, terms) ==
    CASE \A k \in 1..Len(terms) : Len(terms[k]) = Len(seed) ->
    Rows(LAMBDA r :
            Add64(seed[r],
                  SumWords(Rows(LAMBDA k : terms[k][r], 1, Len(terms)), 1)),
         1, Len(seed))

\* every field the producer hands to apply_field, in call order
probed_fields(is_mc) == <<"Pileup.nPU">> \o collections(is_mc) \o object_fields

\* the fields for which apply_field issues its warning, in call order
missing_fields(events, is_mc) ==
    SelectSeq(probed_fields(is_mc), LAMBDA f : ~apply_field(events, f).found)

\* the seed after the two passes over the fields, before the last create_seed;
\* gathered is what the loop over the collections left
mix_fields(events, gathered) ==
    [events |-> gathered.events,
     seed   |-> add_terms(add_terms(bootstrap_seed(events),
                                    global_terms(gathered.events,
                                                 gathered.global_fields)),
                          object_terms(gathered.events))]

\* seed = create_seed(seed); events = set_ak_column(events,
\* "deterministic_seed", seed)
store_seed(mixed, warned) ==
    CASE Len(mixed.seed) = mixed.events.len ->
    [raised |-> "none",
     events |-> set_ak_column(mixed.events, "deterministic_seed",
                    Rows(LAMBDA r : create_seed(mixed.seed[r], n_hex_default),
                         1, Len(mixed.seed))),
     warned |-> warned]

\* a variant of the producer that returns the batch as it is when a required
\* field is missing (C7_RequiredMissing depends on the exception)
event_seeds_lenient(events, is_mc) ==
    IF \E k \in DOMAIN required_fields : ~HasField(events, required_fields[k])
    THEN [raised |-> "none", events |-> events, warned |-> <<>>]
    ELSE store_seed(mix_fields(events,
                               gather_counts(collections(is_mc), 1,
                                             flat_fields(events), events)),
                    missing_fields(events, is_mc))

\* the producer: raised names the exception that left it ("none": it returned),
\* events is the returned array, warned the fields apply_field warned about
deterministic_event_seeds(events, is_mc) ==
    IF \E k \in DOMAIN required_fields : ~HasField(events, required_fields[k])
    THEN [raised |-> "AttributeError", events |-> events, warned |-> <<>>]
    ELSE store_seed(mix_fields(events,
                               gather_counts(collections(is_mc), 1,
                                             flat_fields(events), events)),
                    missing_fields(events, is_mc))

(***************************************************************************)
(* deterministic_jet_seeds and deterministic_seeds                         *)
(***************************************************************************)

\* ak.local_index(events.Jet, axis=1): taken over the jets of each event
jet_local_index(jets) ==
    local_index(jets[CHOOSE g \in DOMAIN jets : TRUE])

\* a variant of jet_raw that leaves the local index out (C5_JetRaw depends on
\* the index entering the value)
jet_raw_no_index(E, j) ==
    Add64(E, Mul64(prime_at(UMod64(E, TableLen)), prime_at(50)))

\* the value handed to create_seed for the jet at local index j of an event
\* with seed E
jet_raw(E, j) ==
    Add64(E, Mul64(prime_at(UMod64(E, TableLen)), U64(j + primes[50 + 1])))

\* create_seed(events.deterministic_seed + primes[...] * (index + primes[50]))
\* for every jet
jet_seed(E, index) ==
    CASE Len(E) = Len(index) ->
    Rows(LAMBDA r :
            Rows(LAMBDA j : create_seed(jet_raw(E[r], index[r][j]), n_hex_default),
                 1, Len(index[r])),
         1, Len(index))

\* the jet producer after its call of deterministic_event_seeds returned ev
store_jet_seed(events, ev) ==
    IF ev.raised # "none" THEN ev
    ELSE IF ~HasField(ev.events, "Jet")
    THEN [raised |-> "AttributeError", events |-> events, warned |-> ev.warned]
    ELSE [raised |-> "none",
          events |-> set_ak_column(ev.events, "Jet.deterministic_seed",
                         jet_seed(ev.events.fields["deterministic_seed"],
                                  jet_local_index(ev.events.fields["Jet"]))),
          warned |-> ev.warned]

deterministic_jet_seeds(events, is_mc) ==
    store_jet_seed(events, deterministic_event_seeds(events, is_mc))

\* the driver after both of its calls
seeds_result(events, first, second) ==
    [raised |-> second.raised,
     events |-> IF second.raised = "none" THEN second.events ELSE events,
     warned |-> first.warned \o second.warned]

\* the driver after its call of deterministic_event_seeds returned first
seeds_after(events, is_mc, first) ==
    IF first.raised # "none" THEN first
    ELSE seeds_result(events, first, deterministic_jet_seeds(first.events, is_mc))

deterministic_seeds(events, is_mc) ==
    seeds_after(events, is_mc, deterministic_event_seeds(events, is_mc))

(***************************************************************************)
(* logger.warning_once                                                     *)
(***************************************************************************)

\* a variant of once_key without id(self) (C8_OncePerInstance depends on the
\* instance being part of the key)
once_key_field(inst, field) == <<0, field>>

\* f"{id(self)}_{field}": self is the deterministic_event_seeds instance
once_key(inst, field) == <<inst, field>>

\* the fields among warned whose key the logger has not seen
fresh_fields(inst, warned, log) ==
    {f \in {warned[k] : k \in DOMAIN warned} : once_key(inst, f) \notin log.once}

\* the logger after warning_once was called for warned[1], warned[2], ...: a
\* message is emitted for a key that is new, and the key is kept
log_warnings(inst, warned, log) ==
    [once    |-> log.once \cup {once_key(inst, f) : f \in {warned[k] : k \in DOMAIN warned}},
     emitted |-> [f \in DOMAIN log.emitted |->
                     IF f \in fresh_fields(inst, warned, log)
                     THEN log.emitted[f] + 1 ELSE log.emitted[f]]]

(***************************************************************************)
(* Inputs: the datasets a process reads                                    *)
(***************************************************************************)

\* events of a dataset
MaxEvents == 2

\* objects of a collection in one event
MaxObj == 2

\* tasks of one process, each with its own producer instances
MaxTasks == 2

Required == [run |-> {}, luminosityBlock |-> {}, event |-> {}]

\* a schema maps each top-level field to the names of its sub-fields
SchemaBare == Required

SchemaCounts == Required @@ [Jet |-> {"pt"}, Muon |-> {"pt"}]

SchemaJets == Required @@ [Jet |-> {"nConstituents", "nMuons"}]

SchemaLeptons ==
    Required @@ [Pileup   |-> {"nPU"},
                 Muon     |-> {"jetIdx", "nStations"},
                 Electron |-> {"jetIdx"}]

SchemaGen ==
    Required @@ [Pileup  |-> {"nPU"},
                 Jet     |-> {"nConstituents"},
                 GenJet  |-> {"pt"},
                 GenPart |-> {"pt"}]

SchemaFull ==
    Required @@ [Pileup   |-> {"nPU"},
                 Jet      |-> {"nConstituents", "nElectrons", "nMuons"},
                 FatJet   |-> {"pt"},
                 SubJet   |-> {"pt"},
                 Photon   |-> {"pt"},
                 Muon     |-> {"jetIdx", "nStations"},
                 Electron |-> {"jetIdx", "seediPhiOriY"},
                 Tau      |-> {"jetIdx", "decayMode"},
                 SV       |-> {"pt"},
                 GenJet   |-> {"pt"},
                 GenPart  |-> {"pt"}]

SchemaNoLumi == [run |-> {}, event |-> {}] @@ [Jet |-> {"nConstituents"}]

SchemaNoEvent == [run |-> {}, luminosityBlock |-> {}] @@ [Pileup |-> {"nPU"}]

AllCollections == collections(TRUE)

CollIndex(col) == CHOOSE k \in DOMAIN AllCollections : AllCollections[k] = col

FieldShift(f) ==
    CASE f = "pt"            -> 0
      [] f = "jetIdx"        -> 1
      [] f = "nStations"     -> 2
      [] f = "nConstituents" -> 3
      [] f = "nElectrons"    -> 4
      [] f = "nMuons"        -> 5
      [] f = "seediPhiOriY"  -> 6
      [] f = "decayMode"     -> 7

\* an int64 value of 2^31 - 1, whose square is close to 2^62
WideValue == 2 ^ 30 + (2 ^ 30 - 1)

\* a data set is fixed by its schema and two parameters: shift moves the
\* identifiers, the object counts and the values, wide makes the values large
ObjCount(col, k, cfg) ==
    ((k - 1 + cfg.shift + (IF cfg.wide THEN 2 ELSE 0)) * CollIndex(col))
        % (MaxObj + 1)

ObjValue(f, k, j, cfg) ==
    IF cfg.wide THEN WideValue - j - FieldShift(f)
    ELSE ((j + k + FieldShift(f) + cfg.shift) % 4) - 1

FlatValue(name, k, cfg) ==
    CASE name = "run"             -> 1 + cfg.shift
      [] name = "luminosityBlock" -> k
      [] name = "event"           -> 2 * k - 1 + cfg.shift
      [] name = "nPU"             -> (k + cfg.shift) % 3

Dataset(cfg) ==
    [len    |-> MaxEvents,
     fields |->
        [t \in DOMAIN cfg.schema |->
            IF cfg.schema[t] = {}
            THEN [k \in 1..MaxEvents |-> FlatValue(t, k, cfg)]
            ELSE IF t = "Pileup"
            THEN [f \in cfg.schema[t] |->
                     [k \in 1..MaxEvents |-> FlatValue(f, k, cfg)]]
            ELSE [f \in cfg.schema[t] |->
                     [k \in 1..MaxEvents |->
                         [j \in 1..ObjCount(t, k, cfg) |->
                             ObjValue(f, k, j, cfg)]]]]]

Config(schema, mc, shift, wide) ==
    [schema |-> schema, is_mc |-> mc, shift |-> shift, wide |-> wide]

\* the datasets the process is run on
Configs ==
    {Config(SchemaBare, FALSE, 0, FALSE),
     Config(SchemaCounts, FALSE, 0, FALSE),
     Config(SchemaCounts, TRUE, 1, FALSE),
     Config(SchemaJets, FALSE, 0, FALSE),
     Config(SchemaJets, TRUE, 1, FALSE),
     Config(SchemaJets, TRUE, 0, TRUE),
     Config(SchemaLeptons, FALSE, 1, FALSE),
     Config(SchemaLeptons, TRUE, 0, FALSE),
     Config(SchemaGen, FALSE, 1, FALSE),
     Config(SchemaGen, TRUE, 1, FALSE),
     Config(SchemaFull, FALSE, 0, FALSE),
     Config(SchemaFull, TRUE, 1, FALSE),
     Config(SchemaNoLumi, FALSE, 0, FALSE),
     Config(SchemaNoEvent, TRUE, 1, FALSE)}

\* the chunks of a dataset of n events: its events in any order, any number
Chunks(n) ==
    {c \in UNION {[1..m -> 1..n] : m \in 1..n} :
        \A a, b \in DOMAIN c : a # b => c[a] # c[b]}

IsFlat(t) == t \in DOMAIN Required

RECURSIVE TakeColumns(_, _, _)
\* the columns named in names, each cut down to the events c[1], c[2], ...
TakeColumns(rec, names, c) ==
    IF names = {} THEN <<>>
    ELSE LET f == CHOOSE n \in names : TRUE
         IN  (f :> Rows(LAMBDA k : rec[f][c[k]], 1, Len(c)))
                 @@ TakeColumns(rec, names \ {f}, c)

RECURSIVE TakeFields(_, _, _)
\* the same for the top-level fields: a column, or the columns of a collection
TakeFields(rec, names, c) ==
    IF names = {} THEN <<>>
    ELSE LET t == CHOOSE n \in names : TRUE
         IN  (t :> (IF IsFlat(t) THEN Rows(LAMBDA k : rec[t][c[k]], 1, Len(c))
                    ELSE TakeColumns(rec[t], DOMAIN rec[t], c)))
                 @@ TakeFields(rec, names \ {t}, c)

\* the array of the events c[1], c[2], ... of a dataset
Take(ds, c) ==
    [len |-> Len(c), fields |-> TakeFields(ds.fields, DOMAIN ds.fields, c)]

(***************************************************************************)
(* The process                                                             *)
(***************************************************************************)

VARIABLES
    dataset,    \* the events the process reads
    is_mc,      \* self.dataset_inst.is_mc
    task,       \* the number of the task the process is running
    self_id,    \* id(self) of the task's deterministic_event_seeds instance
    ran,        \* the id(self) of the instances that have processed a chunk
    pc,         \* "idle"; "returned" while the caller holds a result;
                \* "failed" once a producer raised
    started,    \* whether the current task has processed a chunk
    called,     \* the producer the caller invoked
    chunk,      \* the dataset events of the chunk it was invoked on
    result,     \* what came back: the exception raised and the array
    logger      \* warning_once's keys and the number of messages per field

vars ==
    <<dataset, is_mc, task, self_id, ran, pc, started, called, chunk, result,
      logger>>

NoArray == [len |-> 0, fields |-> <<>>]

NoResult == [raised |-> "none", events |-> NoArray]

OptionalFields == {probed_fields(TRUE)[k] : k \in DOMAIN probed_fields(TRUE)}

Init ==
    /\ \E cfg \in Configs :
        /\ dataset = Dataset(cfg)
        /\ is_mc = cfg.is_mc
    /\ task = 1
    /\ self_id = 1
    /\ ran = {}
    /\ pc = "idle"
    /\ started = FALSE
    /\ called = "none"
    /\ chunk = <<>>
    /\ result = NoResult
    /\ logger = [once |-> {}, emitted |-> [f \in OptionalFields |-> 0]]

\* the caller hands a chunk to a producer and gets res back
Invoke(name, c, res) ==
    /\ pc' = IF res.raised = "none" THEN "returned" ELSE "failed"
    /\ started' = TRUE
    /\ called' = name
    /\ chunk' = c
    /\ result' = [raised |-> res.raised, events |-> res.events]
    /\ ran' = ran \cup {self_id}
    /\ logger' = log_warnings(self_id, res.warned, logger)
    /\ UNCHANGED <<dataset, is_mc, task, self_id>>

CallEventSeeds ==
    /\ pc = "idle"
    /\ \E c \in Chunks(dataset.len) :
        Invoke("deterministic_event_seeds", c,
               deterministic_event_seeds(Take(dataset, c), is_mc))

CallJetSeeds ==
    /\ pc = "idle"
    /\ \E c \in Chunks(dataset.len) :
        Invoke("deterministic_jet_seeds", c,
               deterministic_jet_seeds(Take(dataset, c), is_mc))

CallSeeds ==
    /\ pc = "idle"
    /\ \E c \in Chunks(dataset.len) :
        Invoke("deterministic_seeds", c,
               deterministic_seeds(Take(dataset, c), is_mc))

\* the caller is done with the result and goes on to the next chunk
Return ==
    /\ pc = "returned"
    /\ pc' = "idle"
    /\ called' = "none"
    /\ chunk' = <<>>
    /\ result' = NoResult
    /\ UNCHANGED <<dataset, is_mc, task, self_id, ran, started, logger>>

\* the task ends, after its chunks or with the exception a producer raised;
\* the process starts its next task, which builds its own producer instances:
\* id(self) of the new instance is a new address or that of an instance of an
\* earlier task that was freed
NewTask ==
    /\ pc = "failed" \/ (pc = "idle" /\ started)
    /\ task < MaxTasks
    /\ task' = task + 1
    /\ \E id \in 1..(task + 1) : self_id' = id
    /\ pc' = "idle"
    /\ started' = FALSE
    /\ called' = "none"
    /\ chunk' = <<>>
    /\ result' = NoResult
    /\ UNCHANGED <<dataset, is_mc, ran, logger>>

Next == CallEventSeeds \/ CallJetSeeds \/ CallSeeds \/ Return \/ NewTask

Spec == Init /\ [][Next]_vars

(***************************************************************************)
(* Properties                                                              *)
(***************************************************************************)

\* the events the producer was called on
Batch == Take(dataset, chunk)

\* the stored event seeds and jet seeds of the returned array
EventSeeds == result.events.fields["deterministic_seed"]

JetSeeds == result.events.fields["Jet"]["deterministic_seed"]

RequiredPresent ==
    /\ HasField(dataset, "event")
    /\ HasField(dataset, "run")
    /\ HasField(dataset, "luminosityBlock")

\* the producer that was called, run on the r-th event of the chunk alone
Alone(r) ==
    CASE called = "deterministic_event_seeds" ->
            deterministic_event_seeds(Take(dataset, <<chunk[r]>>), is_mc)
      [] called = "deterministic_jet_seeds" ->
            deterministic_jet_seeds(Take(dataset, <<chunk[r]>>), is_mc)
      [] called = "deterministic_seeds" ->
            deterministic_seeds(Take(dataset, <<chunk[r]>>), is_mc)

\* C1: whatever chunk an event is processed in and at whatever place in it,
\* its event seed and the seeds of its jets are those the producer gives the
\* event when it is processed alone
C1_ChunkInvariance ==
    pc = "returned" =>
        \A r \in DOMAIN chunk :
            LET alone == Alone(r)
            IN  /\ alone.raised = "none"
                /\ EventSeeds[r] = alone.events.fields["deterministic_seed"][1]
                /\ called # "deterministic_event_seeds" =>
                      JetSeeds[r]
                          = alone.events.fields["Jet"]["deterministic_seed"][1]

\* a chunk of two events in reverse order, both with jets, came back from
\* the driver
C1_Witness ==
    /\ pc = "returned"
    /\ called = "deterministic_seeds"
    /\ Len(chunk) = 2
    /\ chunk[1] > chunk[2]
    /\ Len(JetSeeds[1]) >= 1
    /\ Len(JetSeeds[2]) >= 1

\* C2: on a batch without a Jet collection deterministic_jet_seeds returns
\* the batch with the event seeds and without jet seeds
C2_NoJetNoOp ==
    (/\ called = "deterministic_jet_seeds"
     /\ RequiredPresent
     /\ ~HasField(dataset, "Jet"))
        => /\ pc = "returned"
           /\ HasField(result.events, "deterministic_seed")
           /\ ~HasField(result.events, "Jet")

\* the object-level fields of the batch that come before object_fields[k]
ObjectsBefore(k) ==
    {j \in 1..(k - 1) : apply_field(Batch, object_fields[j]).found}

\* C3: the position of an object-level field counts the fields of the list
\* that are present before it, as the positions of the global fields do
C3_ObjectPositionByPresence ==
    (pc = "returned" /\ called = "deterministic_event_seeds") =>
        \A k \in DOMAIN object_fields :
            apply_field(Batch, object_fields[k]).found =>
                object_position(Batch, k)
                    = value_offset + Cardinality(ObjectsBefore(k))

\* the r-th event of the chunk has run, luminosityBlock and event 1
IsFirstEvent(r) ==
    /\ Batch.fields["event"][r] = 1
    /\ Batch.fields["run"][r] = 1
    /\ Batch.fields["luminosityBlock"][r] = 1

\* no optional scalar field and no object-level field is in the batch
NoOptionalField ==
    /\ ~apply_field(Batch, "Pileup.nPU").found
    /\ \A k \in DOMAIN object_fields : ~apply_field(Batch, object_fields[k]).found

\* the r-th event has no object in any collection of the batch
NoObjects(r) ==
    \A k \in DOMAIN collections(TRUE) :
        apply_field(Batch, collections(TRUE)[k]).found =>
            num(apply_field(Batch, collections(TRUE)[k]).value)[r] = 0

\* no collection is in the batch
NoCollection ==
    \A k \in DOMAIN collections(TRUE) :
        ~apply_field(Batch, collections(TRUE)[k]).found

\* digest_to_u64(digest_to_u64(P[7] + P[5] + P[3], hex_chars=14), hex_chars=16)
BareSeed ==
    create_seed(create_seed(Add64(Add64(prime_at(7), prime_at(5)), prime_at(3)),
                            14), 16)

\* C4 as stated: the event (1, 1, 1) without optional fields and without
\* objects in the collections gets the seed of the bootstrap alone
C4_NoObjects ==
    (pc = "returned" /\ called = "deterministic_event_seeds" /\ NoOptionalField) =>
        \A r \in DOMAIN chunk :
            (IsFirstEvent(r) /\ NoObjects(r)) => EventSeeds[r] = BareSeed

\* C4: the event (1, 1, 1) of a batch without optional fields and without
\* collections gets the seed of the bootstrap alone
C4_Bare ==
    (/\ pc = "returned"
     /\ called = "deterministic_event_seeds"
     /\ NoOptionalField
     /\ NoCollection) =>
        \A r \in DOMAIN chunk : IsFirstEvent(r) => EventSeeds[r] = BareSeed

\* the event (1, 1, 1) of a batch with nothing but the required fields came
\* back from deterministic_event_seeds
C4_Witness ==
    /\ pc = "returned"
    /\ called = "deterministic_event_seeds"
    /\ NoOptionalField
    /\ NoCollection
    /\ \E r \in DOMAIN chunk : IsFirstEvent(r) /\ EventSeeds[r] = BareSeed

\* E + prime_at(E mod table_len) * (j + prime_at(50)) in 64 bits
RawOf(E, j) ==
    Add64(E, Mul64(prime_at(UMod64(E, TableLen)), Add64(U64(j), prime_at(50))))

\* C5: the seed of the jet at local index j of an event with seed E is the
\* digest of E + prime_at(E mod table_len) * (j + prime_at(50)), and the
\* values two jets of an event hand to the digest differ
C5_JetRaw ==
    (pc = "returned" /\ called # "deterministic_event_seeds") =>
        \A r \in DOMAIN chunk :
            \A j \in DOMAIN JetSeeds[r] :
                /\ JetSeeds[r][j] = create_seed(RawOf(EventSeeds[r], j - 1), 16)
                /\ \A j2 \in DOMAIN JetSeeds[r] :
                      j2 # j => RawOf(EventSeeds[r], j2 - 1)
                                    # RawOf(EventSeeds[r], j - 1)

\* an event with two jets came back from deterministic_jet_seeds
C5_Witness ==
    /\ pc = "returned"
    /\ called = "deterministic_jet_seeds"
    /\ \E r \in DOMAIN chunk : Len(JetSeeds[r]) >= 2

\* C6: the prime index of the object pass is the residue of the unsigned
\* 64-bit value of hashed + 15
C6_UnsignedIndex ==
    (pc = "returned" /\ called = "deterministic_event_seeds") =>
        \A k \in DOMAIN object_fields :
            apply_field(Batch, object_fields[k]).found =>
                LET hashed == object_hashed(apply_field(Batch, object_fields[k]).value,
                                            object_position(Batch, k))
                IN  \A r \in DOMAIN chunk :
                        hashed_index(hashed[r])
                            = UMod64(Add64(hashed[r], U64(15)), TableLen)

\* C7: on a batch without one of run, luminosityBlock and event the event
\* seed builder raises, and what the caller is left with is the batch as it
\* was, without any new column
C7_RequiredMissing ==
    (called = "deterministic_event_seeds" /\ ~RequiredPresent) =>
        /\ pc = "failed"
        /\ result.raised = "AttributeError"
        /\ result.events = Batch

\* deterministic_event_seeds failed on a batch without luminosityBlock
C7_Witness ==
    /\ pc = "failed"
    /\ called = "deterministic_event_seeds"
    /\ ~HasField(dataset, "luminosityBlock")
    /\ HasField(dataset, "event")
    /\ result.raised = "AttributeError"

MissingOptional ==
    {f \in OptionalFields :
        /\ \E k \in DOMAIN probed_fields(is_mc) : probed_fields(is_mc)[k] = f
        /\ ~apply_field(dataset, f).found}

GlobalOrder ==
    <<"Pileup.nPU", "Jet", "FatJet", "SubJet", "Photon", "Muon", "Electron",
      "Tau", "SV">> \o (IF is_mc THEN <<"GenJet", "GenPart">> ELSE <<>>)

\* the features of GlobalOrder that are in the batch
GlobalPresent ==
    SelectSeq(GlobalOrder, LAMBDA f : apply_field(Batch, f).found)

\* the raw value of a feature for the r-th event
GlobalValue(f, r) ==
    IF f = "Pileup.nPU" THEN apply_field(Batch, f).value[r]
    ELSE num(apply_field(Batch, f).value)[r]

\* prime_at((v + i + 15) mod table_len) * (v + i) for the k-th present feature
GlobalRef(k, r) ==
    LET adj == GlobalValue(GlobalPresent[k], r) + (3 + k - 1)
    IN  Mul64(prime_at((adj + 15) % TableLen), U64(adj))

\* C9: the stored seed is the digest of the bootstrap seed plus, for the
\* present features in the order Pileup.nPU, Jet, ..., SV and, for simulated
\* data only, GenJet and GenPart, at positions 3, 4, ...: prime_at((v + i + 15)
\* mod table_len) * (v + i), plus what the object pass adds
C9_GlobalPass ==
    (pc = "returned" /\ called = "deterministic_event_seeds") =>
        LET boot    == bootstrap_seed(Batch)
            objects == object_terms(Batch)
        IN  /\ Len(boot) = Len(chunk)
            /\ Len(objects) = Len(object_fields)
            /\ \A r \in DOMAIN chunk :
                EventSeeds[r] =
                    create_seed(
                        Add64(Add64(boot[r],
                                    SumWords(Rows(LAMBDA k : GlobalRef(k, r),
                                                  1, Len(GlobalPresent)), 1)),
                              SumWords(Rows(LAMBDA k : objects[k][r],
                                            1, Len(objects)), 1)),
                        16)

\* deterministic_event_seeds returned on data that is not simulated and has
\* Pileup.nPU and a GenJet collection
C9_Witness ==
    /\ pc = "returned"
    /\ called = "deterministic_event_seeds"
    /\ ~is_mc
    /\ HasField(dataset, "GenJet")
    /\ HasField(dataset, "Pileup")
    /\ HasField(result.events, "nJet")

\* C10: what the driver returns carries the event seeds of one run of the
\* event seed builder, a second run on that output changes nothing, and the
\* jet seeds are those of the stored event seeds
C10_Driver ==
    (pc = "returned" /\ called = "deterministic_seeds") =>
        LET first == deterministic_event_seeds(Batch, is_mc).events
        IN  /\ first.len = Len(chunk)
            /\ EventSeeds = first.fields["deterministic_seed"]
            /\ deterministic_event_seeds(first, is_mc).events = first
            /\ result.events
                  = set_ak_column(first, "Jet.deterministic_seed", JetSeeds)
            /\ \A r \in DOMAIN chunk :
                  \A j \in DOMAIN JetSeeds[r] :
                      JetSeeds[r][j]
                          = create_seed(jet_raw(EventSeeds[r], j - 1), 16)

\* the driver returned a chunk with counted collections and jets
C10_Witness ==
    /\ pc = "returned"
    /\ called = "deterministic_seeds"
    /\ HasField(result.events, "nJet")
    /\ HasField(result.events, "nMuon")
    /\ \E r \in DOMAIN chunk : Len(JetSeeds[r]) >= 1

====
